---- MODULE Spec2Model ----
(***************************************************************************)
(* Funding-provenance risk scanner (Scanner.py and its later revision      *)
(* scanner1.py): entity classification, earliest-funder resolution, the    *)
(* bounded funding trace, dispersion detection and score aggregation.      *)
(*                                                                         *)
(* Text is modelled as a tuple of one-character strings so that case       *)
(* folding and substring containment are computed, not assumed.            *)
(* Timestamps are whole hours on one clock (the code compares ISO-8601     *)
(* strings of one format, whose lexicographic order is the time order).    *)
(***************************************************************************)
EXTENDS Integers, Sequences, FiniteSets, TLC

VARIABLES
    variant,            \* which source file runs: "Scanner" or "scanner1"
    pc,                 \* position inside assess_token_risk
    response,           \* what the provider answered to the step just taken
    db_status,          \* check_database_status(token)
    deployer,           \* assess_token_risk: deployer
    depth,              \* trace_funding_source: loop variable
    current_addr,       \* trace_funding_source: current_addr
    chain_info,         \* trace_funding_source: chain_info
    trace_risk_score,   \* trace_funding_source: trace_risk_score
    trace_stop_reason,  \* trace_funding_source: trace_stop_reason
    hopLog,             \* per loop iteration: what the provider returned and which lookups ran
    requests,           \* provider requests issued so far, in order
    result,             \* value returned by assess_token_risk
    probeIn,            \* input of a directly called helper
    probeOut,           \* its return value
    tokenPos,           \* main.py: position of the loop variable token in token_list
    results             \* main.py: results (of each entry its token, kind and error text)

vars == << variant, pc, response, db_status, deployer, depth, current_addr,
           chain_info, trace_risk_score, trace_stop_reason, hopLog, requests,
           result, probeIn, probeOut, tokenPos, results >>

\* what the batch loop of main.py owns
batchVars == << tokenPos, results >>

None == "None"          \* Python None where a string may stand
Raise == "Raise"        \* an exception propagating out of the call

\* ------------------------------------------------------------------ text
UpperToLower ==
    ("A" :> "a") @@ ("B" :> "b") @@ ("C" :> "c") @@ ("D" :> "d") @@ ("E" :> "e") @@ ("F" :> "f") @@ ("G" :> "g") @@ ("H" :> "h") @@ ("I" :> "i") @@ ("J" :> "j") @@ ("K" :> "k") @@ ("L" :> "l") @@ ("M" :> "m")
    @@ ("N" :> "n") @@ ("O" :> "o") @@ ("P" :> "p") @@ ("Q" :> "q") @@ ("R" :> "r") @@ ("S" :> "s") @@ ("T" :> "t") @@ ("U" :> "u") @@ ("V" :> "v") @@ ("W" :> "w") @@ ("X" :> "x") @@ ("Y" :> "y") @@ ("Z" :> "z")

LowerChar(c) == IF c \in DOMAIN UpperToLower THEN UpperToLower[c] ELSE c

\* str.lower()
Lower(s) == [i \in 1..Len(s) |-> LowerChar(s[i])]

\* needle in hay (substring containment)
Contains(hay, needle) ==
    \E i \in 0..(Len(hay) - Len(needle)) :
        \A j \in 1..Len(needle) : hay[i + j] = needle[j]

StrUnknown == <<"U", "n", "k", "n", "o", "w", "n">>
StrSpace == <<" ">>

cex_keywords_Scanner ==
    << <<"b", "i", "n", "a", "n", "c", "e">>,
       <<"c", "o", "i", "n", "b", "a", "s", "e">>,
       <<"k", "r", "a", "k", "e", "n">>,
       <<"o", "k", "x">>,
       <<"b", "y", "b", "i", "t">>,
       <<"k", "u", "c", "o", "i", "n">>,
       <<"g", "a", "t", "e", ".", "i", "o">>,
       <<"h", "t", "x">>,
       <<"b", "i", "t", "g", "e", "t">>,
       <<"u", "p", "b", "i", "t">>,
       <<"c", "r", "y", "p", "t", "o", ".", "c", "o", "m">> >>

cex_keywords_scanner1 ==
    << <<"b", "i", "n", "a", "n", "c", "e">>,
       <<"c", "o", "i", "n", "b", "a", "s", "e">>,
       <<"k", "r", "a", "k", "e", "n">>,
       <<"o", "k", "x">>,
       <<"b", "y", "b", "i", "t">>,
       <<"k", "u", "c", "o", "i", "n">>,
       <<"g", "a", "t", "e", ".", "i", "o">>,
       <<"h", "t", "x">>,
       <<"b", "i", "t", "g", "e", "t">>,
       <<"u", "p", "b", "i", "t">>,
       <<"c", "r", "y", "p", "t", "o", ".", "c", "o", "m">>,
       <<"c", "i", "r", "c", "l", "e">>,
       <<"t", "e", "t", "h", "e", "r">> >>

bad_keywords_Scanner ==
    << <<"s", "c", "a", "m">>,
       <<"p", "h", "i", "s", "h">>,
       <<"p", "h", "i", "s", "h", "i", "n", "g">>,
       <<"r", "u", "g">>,
       <<"r", "u", "g", "p", "u", "l", "l">>,
       <<"e", "x", "p", "l", "o", "i", "t">>,
       <<"h", "a", "c", "k">>,
       <<"h", "e", "i", "s", "t">> >>

bad_keywords_scanner1 ==
    << <<"s", "c", "a", "m">>,
       <<"p", "h", "i", "s", "h", "i", "n", "g">>,
       <<"r", "u", "g">>,
       <<"e", "x", "p", "l", "o", "i", "t">>,
       <<"h", "a", "c", "k">>,
       <<"h", "e", "i", "s", "t">> >>

cex_keywords(v) == IF v = "Scanner" THEN cex_keywords_Scanner ELSE cex_keywords_scanner1
bad_keywords(v) == IF v = "Scanner" THEN bad_keywords_Scanner ELSE bad_keywords_scanner1

\* any(k in text for k in keywords)
AnyIn(keywords, text) == \E i \in 1..Len(keywords) : Contains(text, keywords[i])

\* ------------------------------------------------- provider data: names
NameBinanceHot == <<"B", "i", "n", "a", "n", "c", "e", " ", "H", "o", "t", " ", "W", "a", "l", "l", "e", "t">>
NameRugPull == <<"R", "u", "g", " ", "P", "u", "l", "l", " ", "D", "e", "p", "l", "o", "y", "e", "r">>
NameRaydium == <<"R", "a", "y", "d", "i", "u", "m">>
NameBinanceExploiter == <<"B", "i", "n", "a", "n", "c", "e", " ", "E", "x", "p", "l", "o", "i", "t", "e", "r">>
NamePhishDeployer == <<"P", "h", "i", "s", "h", " ", "D", "e", "p", "l", "o", "y", "e", "r">>
NameCircle == <<"C", "i", "r", "c", "l", "e">>
NameHTX == <<"H", "T", "X">>
NameHotWallet == <<"H", "o", "t", " ", "W", "a", "l", "l", "e", "t">>
NameScamLabel == <<"S", "C", "A", "M">>
NameOkxDeposit == <<"O", "K", "X", " ", "D", "e", "p", "o", "s", "i", "t">>

\* ------------------------------------------- provider data: intelligence
\* arkhamEntity / arkhamLabel of an /intelligence/address response:
\* absent or null ("none"), an empty object ("empty", falsy), or an object
\* that may or may not carry a 'name'.
EntNone == [kind |-> "none", hasName |-> FALSE, name |-> <<>>]
EntEmpty == [kind |-> "empty", hasName |-> FALSE, name |-> <<>>]
EntNameless == [kind |-> "obj", hasName |-> FALSE, name |-> <<>>]
EntNamed(n) == [kind |-> "obj", hasName |-> TRUE, name |-> n]

\* Python truthiness of the entity / label object
Truthy(e) == e.kind = "obj"

\* e.get('name', default)
GetName(e, default) == IF e.hasName THEN e.name ELSE default

\* _get(...) returned None (retries exhausted) or a falsy body
IntelNoData == [ok |-> FALSE, entity |-> EntNone, label |-> EntNone]
IntelData(e, l) == [ok |-> TRUE, entity |-> e, label |-> l]

\* ------------------------------------------------- check_database_status
DbNone == [status |-> "None"]

EstablishedScore(v) == IF v = "Scanner" THEN 0 ELSE 10

FullName(data) ==
    LET entity_name == IF Truthy(data.entity) THEN GetName(data.entity, StrUnknown) ELSE StrUnknown
        label_name == IF Truthy(data.label) THEN GetName(data.label, StrUnknown) ELSE StrUnknown
    IN  Lower(entity_name \o StrSpace \o label_name)

\* The order of the three checks: blacklist, trusted issuer, any entity
MatchRule_TrustedFirst(isBad, isTrusted, hasEntity) ==
    IF isTrusted THEN "trusted"
    ELSE IF isBad THEN "blacklist"
    ELSE IF hasEntity THEN "established"
    ELSE "none"
MatchRule(isBad, isTrusted, hasEntity) ==
    IF isBad THEN "blacklist"
    ELSE IF isTrusted THEN "trusted"
    ELSE IF hasEntity THEN "established"
    ELSE "none"

\* the dictionary returned for the rule that matched
Verdict(v, rule, entity_name, label_name) ==
    IF rule = "blacklist" THEN
        [status |-> "KNOWN", risk_score |-> 100, label |-> "HIGH",
         flags |-> << [text |-> "Arkham Database Flagged",
                       name |-> IF entity_name # <<>> THEN entity_name ELSE label_name] >>,
         details |-> [entity |-> entity_name, reason |-> "Database Blacklist"]]
    ELSE IF rule = "trusted" THEN
        [status |-> "KNOWN", risk_score |-> 0, label |-> "LOW",
         flags |-> << [text |-> "Trusted Entity Verified", name |-> entity_name] >>,
         details |-> [entity |-> entity_name, reason |-> "Trusted Issuer"]]
    ELSE IF rule = "established" THEN
        [status |-> "KNOWN", risk_score |-> EstablishedScore(v), label |-> "LOW",
         flags |-> << [text |-> "Established Project", name |-> entity_name] >>,
         details |-> [entity |-> entity_name, reason |-> "Known Entity"]]
    ELSE DbNone

check_database_status(v, data) ==
    IF ~data.ok THEN DbNone
    ELSE IF ~Truthy(data.entity) /\ ~Truthy(data.label) THEN DbNone
    ELSE Verdict(v,
                 MatchRule(AnyIn(bad_keywords(v), FullName(data)),
                           AnyIn(cex_keywords(v), FullName(data)),
                           Truthy(data.entity)),
                 IF Truthy(data.entity) THEN GetName(data.entity, StrUnknown) ELSE StrUnknown,
                 IF Truthy(data.label) THEN GetName(data.label, StrUnknown) ELSE StrUnknown)

\* check_is_known_entity (Scanner.py only): <<is_known, entity_name>>
check_is_known_entity(v, data) ==
    IF data.ok /\ Truthy(data.entity)
       /\ AnyIn(cex_keywords(v), Lower(GetName(data.entity, <<>>)))
    THEN [known |-> TRUE, name |-> GetName(data.entity, <<>>)]
    ELSE [known |-> FALSE, name |-> <<>>]

\* --------------------------------------------- provider data: transfers
\* A transfer record.  ts is {} (no 'blockTimestamp') or {t}.  from / to are
\* the 'address' of the fromAddress / toAddress object, or Absent (the key
\* is missing) or Null (the key is present with value null).
Absent == "Absent"
Null == "Null"

Tx(ts, from, to, fe, fl) ==
    [ts |-> ts, from |-> from, to |-> to, fromEntity |-> fe, fromLabel |-> fl]

\* A transfer list: recs, followed by pad more copies of its last record
\* (further transfers that repeat the last one; they never sort first).
TxList(recs, pad) == [recs |-> recs, pad |-> pad]
EmptyTx == TxList(<<>>, 0)

\* len(tx_list)
TxLen(l) == Len(l.recs) + l.pad

\* A /transfers response as _get returns it: None, a bare list, an object
\* wrapping the list under 'transfers', or an object without that key.
RespNone == [shape |-> "none", txs |-> EmptyTx]
RespList(l) == [shape |-> "list", txs |-> l]
RespDict(l) == [shape |-> "dict", txs |-> l]
RespNoKey == [shape |-> "nokey", txs |-> EmptyTx]

_normalize_transfers_list(data) ==
    IF data.shape = "none" THEN EmptyTx
    ELSE IF data.shape = "list" THEN data.txs
    ELSE IF data.shape = "dict" THEN data.txs
    ELSE EmptyTx

\* valid_txs = [t for t in tx_list if t.get('blockTimestamp')], by index
ValidIdx(l) == {i \in 1..Len(l.recs) : l.recs[i].ts # {}}

\* the value of a one-element option set
TheOne(s) == CHOOSE t \in s : TRUE

TsOf(r) == TheOne(r.ts)

\* sorted(valid_txs, key=blockTimestamp)[0]: the sort is stable, so among
\* equal timestamps the record that came first in the list stays first
FirstIdx(l) ==
    CHOOSE i \in ValidIdx(l) :
        \A j \in ValidIdx(l) :
            \/ TsOf(l.recs[i]) < TsOf(l.recs[j])
            \/ (TsOf(l.recs[i]) = TsOf(l.recs[j]) /\ i <= j)

\* (obj or {}).get('address')
SafeAddress(a) == IF a \in {Absent, Null} THEN None ELSE a

\* rec.get(key, {}).get('address'): a null object has no .get
UnsafeAddress(a) == IF a = Null THEN Raise ELSE IF a = Absent THEN None ELSE a

\* (obj or {}).get('name'); <<>> stands for None and for the empty string
NameOf(e) == IF Truthy(e) /\ e.hasName THEN e.name ELSE <<>>

DetailsNone == [kind |-> "None"]
DetailsRaise == [kind |-> "Raise"]

\* Scanner.py: the dictionary has no funder_entity and no tx_count
NoDataDetails(v, address) ==
    IF v = "Scanner"
    THEN [kind |-> "details", address |-> address, creation_time |-> {}, funder |-> None]
    ELSE [kind |-> "details", address |-> address, creation_time |-> {}, funder |-> None,
          funder_entity |-> <<>>, tx_count |-> 0]

\* The list get_address_details works on: the 'to' query, else the 'base' query
ResolvedList(toResp, baseResp) ==
    IF TxLen(_normalize_transfers_list(toResp)) # 0
    THEN _normalize_transfers_list(toResp)
    ELSE _normalize_transfers_list(baseResp)

\* "if to_addr == address and from_addr: funder_address = from_addr" and
\* "if funder_address == address: funder_address = None"
FunderOf_KeepSelf(address, from_addr, to_addr) ==
    IF to_addr = address /\ from_addr # None THEN from_addr ELSE None
FunderOf(address, from_addr, to_addr) ==
    IF to_addr = address /\ from_addr # None /\ from_addr # address THEN from_addr ELSE None

\* lines 143-153 of Scanner.py / 163-180 of scanner1.py: the funder rule,
\* given the two addresses and the source-side name of the earliest record
DetailsOf(v, address, creation_time, from_addr, to_addr, entity_str, n) ==
    IF from_addr = Raise \/ to_addr = Raise THEN DetailsRaise
    ELSE IF v = "Scanner"
    THEN [kind |-> "details", address |-> address, creation_time |-> creation_time,
          funder |-> FunderOf(address, from_addr, to_addr)]
    ELSE [kind |-> "details", address |-> address, creation_time |-> creation_time,
          funder |-> FunderOf(address, from_addr, to_addr),
          funder_entity |-> IF FunderOf(address, from_addr, to_addr) # None
                            THEN entity_str ELSE <<>>,
          tx_count |-> n]

\* the fields get_address_details reads from the earliest record
DetailsOfFirst(v, address, first_tx, n) ==
    DetailsOf(v, address, first_tx.ts,
              IF v = "Scanner" THEN UnsafeAddress(first_tx.from) ELSE SafeAddress(first_tx.from),
              IF v = "Scanner" THEN UnsafeAddress(first_tx.to) ELSE SafeAddress(first_tx.to),
              IF NameOf(first_tx.fromEntity) # <<>> THEN NameOf(first_tx.fromEntity)
              ELSE NameOf(first_tx.fromLabel),
              n)

DetailsOfList(v, address, tx_list) ==
    IF address = None THEN DetailsNone
    ELSE IF TxLen(tx_list) = 0 THEN NoDataDetails(v, address)
    ELSE IF ValidIdx(tx_list) = {} THEN NoDataDetails(v, address)
    ELSE DetailsOfFirst(v, address, tx_list.recs[FirstIdx(tx_list)], TxLen(tx_list))

get_address_details(v, address, toResp, baseResp) ==
    DetailsOfList(v, address, ResolvedList(toResp, baseResp))

\* ------------------------------------------------ get_true_age_via_history
\* A /history/address response: None, or an object whose 'solana' entry is
\* missing or a list of records, each with 'time' {t} or without ({}).
HistNone == [shape |-> "none", solana |-> <<>>]
HistNoKey == [shape |-> "nokey", solana |-> <<>>]
HistList(items) == [shape |-> "dict", solana |-> items]

\* sorted(history_list, key=time or '9999-12-31')[0].get('time')
get_true_age_via_history(data) ==
    LET h == data.solana
        timed == {i \in 1..Len(h) : h[i] # {}}
        first == CHOOSE i \in timed :
                    \A j \in timed : TheOne(h[i]) <= TheOne(h[j])
    IN  IF data.shape # "dict" THEN {}
        ELSE IF Len(h) = 0 THEN {}
        ELSE IF timed = {} THEN {}
        ELSE h[first]

\* ---------------------------------------------- analyze_dispersion_pattern
\* every record of the list, the padding copies included
AllRecs(l) == {l.recs[i] : i \in 1..Len(l.recs)}

\* receivers.add(to_addr) for every truthy to_addr
Receivers(l) == {r.to : r \in {x \in AllRecs(l) : x.to \notin {Absent, Null}}}

DispResult(raised, value) == [raised |-> raised, value |-> value]

\* "if unique_ratio > 0.5 and len(receivers) > 20": the quotient of two
\* list lengths exceeds one half exactly when twice the first exceeds the second
IsDispersed_AtLeast(unique, total) == 2 * unique >= total /\ unique >= 20
IsDispersed(unique, total) == 2 * unique > total /\ unique > 20

analyze_dispersion_pattern(address, data) ==
    IF address = None THEN DispResult(FALSE, FALSE)
    ELSE IF TxLen(_normalize_transfers_list(data)) = 0
            \/ TxLen(_normalize_transfers_list(data)) < 20
    THEN DispResult(FALSE, FALSE)
    ELSE IF \E r \in AllRecs(_normalize_transfers_list(data)) : r.to = Null
    THEN DispResult(TRUE, FALSE)
    ELSE DispResult(FALSE,
                    IsDispersed(Cardinality(Receivers(_normalize_transfers_list(data))),
                                TxLen(_normalize_transfers_list(data))))

\* ------------------------------------------------------------ wall clock
\* datetime.now(), in hours; one scan is short against the hour
NowHour == 9600

\* timedelta.days and timedelta.seconds // 3600 of (now - t); Python keeps
\* seconds in [0, 86400) and lets days go negative
DeltaDays(t) == (NowHour - t) \div 24
DeltaHours(t) == (NowHour - t) % 24

\* --------------------------------------------------- trace_funding_source
max_depth == 3

\* range(max_depth + 1): the number of passes of the loop
LoopPasses_OneMore(md) == md + 2
LoopPasses(md) == md + 1

\* "if funder_entity:" (scanner1.py line 294)
FundedByEntity_Never(funder_entity) == FALSE
FundedByEntity(funder_entity) == funder_entity # <<>>

\* "if not funder:" (Scanner.py line 259, scanner1.py line 310)
NoFunder_Never(funder) == FALSE
NoFunder(funder) == funder = None

\* "layer": depth + 1 of the synthetic entity layer (scanner1.py line 298)
EntityLayerDepth_Same(d) == d
EntityLayerDepth(d) == d + 1

\* "if true_age_days > 180:" (scanner1.py line 245)
IsOldAge_Year(true_age_days) == true_age_days > 365
IsOldAge(true_age_days) == true_age_days > 180

\* "trace_risk_score = 20" (Scanner.py line 199), "= 0" (scanner1.py line 209)
BaseScore_Zero(v) == 0
BaseScore(v) == IF v = "Scanner" THEN 20 ELSE 0

\* "if depth > 0:" before the dispersion check (Scanner.py l.250, scanner1.py l.281)
ChecksDispersion_Always(d) == TRUE
ChecksDispersion(d) == d > 0

\* the dispersion penalty: "+= 50" (Scanner.py l.253), "+= 30" (scanner1.py l.286)
DispersionPenalty(v) == IF v = "Scanner" THEN 50 ELSE 30

\* before trace_funding_source runs there is no stop reason
NoStop == [text |-> "", name |-> <<>>]
StopMaxDepth == [text |-> "Max depth reached", name |-> <<>>]
StopNoFunder == [text |-> "No upstream funder found", name |-> <<>>]
StopTrustedEntity(n) == [text |-> "Found Trusted Entity", name |-> n]
StopKnownEntity(n) == [text |-> "Funded by Known Entity", name |-> n]

\* One element of chain_info.  Keys a variant never writes hold what
\* layer.get(key) gives for them (falsy), age_hours 0.
Layer(d, a, days, hours, cex, old, dist, ent, rc, fby) ==
    [layer |-> d, address |-> a, age_days |-> days, age_hours |-> hours,
     is_cex |-> cex, is_verified_old |-> old, is_distributor |-> dist,
     entity_name |-> ent, risk_contribution |-> rc, funded_by_entity |-> fby]

\* What the provider holds for the address of one loop iteration
HopData(toResp, baseResp, intel, hist, out) ==
    [toResp |-> toResp, baseResp |-> baseResp, intel |-> intel, hist |-> hist, out |-> out]

\* Outcome of one loop iteration
HopOut(raised, brk, chain, score, stop, next, asked) ==
    [raised |-> raised, brk |-> brk, chain |-> chain, score |-> score,
     stop |-> stop, next |-> next, asked |-> asked]

\* Scanner.py, lines 236-244
AgeRisk_Scanner(d, age_days) ==
    IF age_days = -1 THEN 0
    ELSE IF d = 0
    THEN (IF age_days < 30 THEN 30 ELSE IF age_days < 90 THEN 20
          ELSE IF age_days < 180 THEN 10 ELSE 0)
    ELSE (IF age_days < 90 THEN 20 ELSE IF age_days < 180 THEN 10 ELSE 0)

\* scanner1.py, lines 261-275
AgeRisk_scanner1(d, age_days, is_verified_old_wallet) ==
    IF age_days = -1 THEN 0
    ELSE IF is_verified_old_wallet THEN -10
    ELSE IF d = 0
    THEN (IF age_days < 7 THEN 20 ELSE IF age_days < 14 THEN 15
          ELSE IF age_days < 30 THEN 10 ELSE 0)
    ELSE (IF age_days < 30 THEN 15 ELSE IF age_days < 60 THEN 10 ELSE 0)

\* Requests get_address_details issues: the 'to' query, then the 'base'
\* query when the first came back empty; none for an absent address
ResolveRequests(address, toResp) ==
    IF address = None THEN <<>>
    ELSE IF TxLen(_normalize_transfers_list(toResp)) # 0 THEN <<"transfers_to">>
    ELSE <<"transfers_to", "transfers_base">>

\* age_days / age_hours from creation_time ({} when unknown)
AgeDaysOf(creation_time) ==
    IF creation_time # {} THEN DeltaDays(TheOne(creation_time)) ELSE -1
AgeHoursOf(creation_time) ==
    IF creation_time # {} THEN DeltaHours(TheOne(creation_time)) ELSE 0

\* scanner1.py line 234: the deep-history lookup is made
Escalates(details) ==
    /\ details.kind = "details"
    /\ AgeDaysOf(details.creation_time) < 1
    /\ details.tx_count >= 100

\* Scanner.py lines 235-262: age scoring, dispersion, append, funder check
Finish_Scanner(d, cur, chain, score, stop, details, age_days, disp, asked) ==
    IF disp.raised THEN HopOut(TRUE, TRUE, chain, score, stop, cur, asked)
    ELSE IF NoFunder(details.funder)
    THEN HopOut(FALSE, TRUE,
                Append(chain, Layer(d, cur, age_days, 0, FALSE, FALSE, disp.value, <<>>,
                                    AgeRisk_Scanner(d, age_days) + (IF disp.value THEN DispersionPenalty("Scanner") ELSE 0),
                                    <<>>)),
                score + AgeRisk_Scanner(d, age_days) + (IF disp.value THEN DispersionPenalty("Scanner") ELSE 0),
                StopNoFunder, cur, asked)
    ELSE HopOut(FALSE, FALSE,
                Append(chain, Layer(d, cur, age_days, 0, FALSE, FALSE, disp.value, <<>>,
                                    AgeRisk_Scanner(d, age_days) + (IF disp.value THEN DispersionPenalty("Scanner") ELSE 0),
                                    <<>>)),
                score + AgeRisk_Scanner(d, age_days) + (IF disp.value THEN DispersionPenalty("Scanner") ELSE 0),
                stop, details.funder, asked)

\* Scanner.py lines 222-233: the trusted-entity check of a source address
Known_Scanner(d, cur, chain, score, stop, data, details, age_days, ent, asked0) ==
    IF d > 0 /\ ent.known
    THEN HopOut(FALSE, TRUE,
                Append(chain, Layer(d, cur, age_days, 0, TRUE, FALSE, FALSE, ent.name, -10, <<>>)),
                score - 10, StopTrustedEntity(ent.name), cur, Append(asked0, "entity"))
    ELSE Finish_Scanner(d, cur, chain, score, stop, details, age_days,
                        IF ChecksDispersion(d) THEN analyze_dispersion_pattern(cur, data.out)
                        ELSE DispResult(FALSE, FALSE),
                        (IF d > 0 THEN Append(asked0, "entity") ELSE asked0)
                        \o (IF ChecksDispersion(d) THEN <<"transfers_from">> ELSE <<>>))

\* Scanner.py lines 203-211
Resolved_Scanner(d, cur, chain, score, stop, data, details, asked0) ==
    IF details.kind = "None" THEN HopOut(FALSE, TRUE, chain, score, stop, cur, asked0)
    ELSE IF details.kind = "Raise" THEN HopOut(TRUE, TRUE, chain, score, stop, cur, asked0)
    ELSE Known_Scanner(d, cur, chain, score, stop, data, details,
                       AgeDaysOf(details.creation_time),
                       check_is_known_entity("Scanner", data.intel), asked0)

\* One pass through the loop body of Scanner.py's trace_funding_source
Iteration_Scanner(d, cur, chain, score, stop, data) ==
    Resolved_Scanner(d, cur, chain, score, stop, data,
                     get_address_details("Scanner", cur, data.toResp, data.baseResp),
                     ResolveRequests(cur, data.toResp))

\* scanner1.py line 296: taken off the total for a hop funded by an entity
FundedHopReduction == 40
\* scanner1.py lines 303 and 306: the entity hop's contribution, taken off too
EntityHopReduction == 20

\* scanner1.py lines 291-314: append, known-entity funder, missing funder
Finish_scanner1(d, cur, chain, score, stop, details, layer_info, disp, asked) ==
    IF disp.raised THEN HopOut(TRUE, TRUE, chain, score, stop, cur, asked)
    ELSE IF FundedByEntity(details.funder_entity)
    THEN HopOut(FALSE, TRUE,
                Append(Append(chain, layer_info),
                       Layer(EntityLayerDepth(d), details.funder, -1, 0, TRUE, FALSE, FALSE,
                             details.funder_entity, 0 - EntityHopReduction, <<>>)),
                score + layer_info.risk_contribution - FundedHopReduction - EntityHopReduction,
                StopKnownEntity(details.funder_entity), cur, asked)
    ELSE IF NoFunder(details.funder)
    THEN HopOut(FALSE, TRUE, Append(chain, layer_info),
                score + layer_info.risk_contribution, StopNoFunder, cur, asked)
    ELSE HopOut(FALSE, FALSE, Append(chain, layer_info),
                score + layer_info.risk_contribution, stop, details.funder, asked)

\* scanner1.py lines 248-289: the layer record, age scoring, dispersion
Score_scanner1(d, cur, chain, score, stop, details, age_days, age_hours, is_verified_old_wallet, disp, asked) ==
    Finish_scanner1(d, cur, chain, score, stop, details,
                    Layer(d, cur, age_days, age_hours, FALSE, is_verified_old_wallet,
                          disp.value, <<>>,
                          AgeRisk_scanner1(d, age_days, is_verified_old_wallet)
                          + (IF disp.value THEN DispersionPenalty("scanner1") ELSE 0),
                          details.funder_entity),
                    disp, asked)

\* scanner1.py lines 230-246: the true age replaces the primary one
Verify_scanner1(d, cur, chain, score, stop, data, details, true_creation_time, nowBound, asked1) ==
    IF true_creation_time # {} /\ ~(nowBound \/ details.creation_time # {})
    THEN HopOut(TRUE, TRUE, chain, score, stop, cur, asked1)
    ELSE IF true_creation_time # {} /\ IsOldAge(DeltaDays(TheOne(true_creation_time)))
    THEN Score_scanner1(d, cur, chain, score, stop, details,
                        DeltaDays(TheOne(true_creation_time)),
                        AgeHoursOf(details.creation_time), TRUE,
                        DispResult(FALSE, FALSE), asked1)
    ELSE Score_scanner1(d, cur, chain, score, stop, details,
                        IF true_creation_time # {}
                        THEN DeltaDays(TheOne(true_creation_time))
                        ELSE AgeDaysOf(details.creation_time),
                        AgeHoursOf(details.creation_time), FALSE,
                        IF ChecksDispersion(d) THEN analyze_dispersion_pattern(cur, data.out)
                        ELSE DispResult(FALSE, FALSE),
                        IF ChecksDispersion(d) THEN Append(asked1, "transfers_from") ELSE asked1)

\* scanner1.py lines 213-236.  nowBound: 'now' was assigned by an earlier
\* pass (line 225 assigns it only when creation_time is set)
Resolved_scanner1(d, cur, chain, score, stop, data, details, nowBound, asked0) ==
    IF details.kind = "None" THEN HopOut(FALSE, TRUE, chain, score, stop, cur, asked0)
    ELSE IF details.kind = "Raise" THEN HopOut(TRUE, TRUE, chain, score, stop, cur, asked0)
    ELSE Verify_scanner1(d, cur, chain, score, stop, data, details,
                         IF Escalates(details) THEN get_true_age_via_history(data.hist)
                         ELSE {},
                         nowBound,
                         IF Escalates(details) THEN Append(asked0, "history") ELSE asked0)

\* One pass through the loop body of scanner1.py's trace_funding_source
Iteration_scanner1(d, cur, chain, score, stop, data, nowBound) ==
    Resolved_scanner1(d, cur, chain, score, stop, data,
                      get_address_details("scanner1", cur, data.toResp, data.baseResp),
                      nowBound, ResolveRequests(cur, data.toResp))

Iteration(v, d, cur, chain, score, stop, data, nowBound) ==
    IF v = "Scanner" THEN Iteration_Scanner(d, cur, chain, score, stop, data)
    ELSE Iteration_scanner1(d, cur, chain, score, stop, data, nowBound)

\* ------------------------------------------------------ assess_token_risk
\* final_score = max(0, min(100, final_score))
Min2(a, b) == IF a < b THEN a ELSE b
Max2(a, b) == IF a > b THEN a ELSE b
Clamp_NoFloor(score) == Min2(100, score)
Clamp(score) == Max2(0, Min2(100, score))

MediumCutoff_Swapped(v) == IF v = "Scanner" THEN 40 ELSE 30
MediumCutoff(v) == IF v = "Scanner" THEN 30 ELSE 40

LabelOf(v, final_score) ==
    IF final_score >= 70 THEN "HIGH"
    ELSE IF final_score >= MediumCutoff(v) THEN "MEDIUM"
    ELSE "LOW"

Flag(text, layer, name) == [text |-> text, layer |-> layer.layer, name |-> name]

\* "layer['age_days'] != -1 and ((d == 0 and age_days < 30) or (d > 0 and age_days < 60))"
IsFresh_Always(layer) == TRUE
IsFresh(layer) ==
    /\ layer.age_days # -1
    /\ \/ (layer.layer = 0 /\ layer.age_days < 30)
       \/ (layer.layer > 0 /\ layer.age_days < 60)

\* flags appended while visiting one layer
LayerFlags(v, layer) ==
    IF v = "Scanner"
    THEN (IF IsFresh(layer) THEN <<Flag("is fresh wallet", layer, <<>>)>> ELSE <<>>)
         \o (IF layer.is_cex
             THEN <<Flag("Funded by Trusted Entity", layer, layer.entity_name)>>
             ELSE IF layer.is_distributor
             THEN <<Flag("shows suspicious dispersion pattern", layer, <<>>)>>
             ELSE <<>>)
    ELSE IF layer.is_cex THEN <<Flag("Fund source is", layer, layer.entity_name)>>
    ELSE (IF ~layer.is_verified_old /\ IsFresh(layer)
          THEN <<Flag("is fresh wallet", layer, <<>>)>> ELSE <<>>)
         \o (IF layer.is_distributor
             THEN <<Flag("suspicious dispersion", layer, <<>>)>> ELSE <<>>)

\* the parts of one line of trace_log
LayerDesc(v, layer) ==
    IF v = "Scanner"
    THEN <<"role">>
         \o (IF layer.age_days # -1 THEN <<"Age">> ELSE <<>>)
         \o (IF layer.is_cex THEN <<"[CEX/SAFE]">>
             ELSE IF layer.is_distributor THEN <<"[DISTRIBUTOR]">> ELSE <<>>)
    ELSE IF layer.is_cex THEN <<"role", "is Known Entity", "[SAFE]">>
    ELSE <<"role">>
         \o (IF layer.is_verified_old THEN <<"Verified Old Wallet">>
             ELSE IF layer.age_days # -1 THEN <<"Age">> ELSE <<>>)
         \o (IF layer.funded_by_entity # <<>> THEN <<"<- Funded by">> ELSE <<>>)
         \o (IF layer.is_distributor THEN <<"[DISTRIBUTOR]">> ELSE <<>>)

RECURSIVE FlagsOf(_, _)
FlagsOf(v, chain) ==
    IF chain = <<>> THEN <<>>
    ELSE LayerFlags(v, Head(chain)) \o FlagsOf(v, Tail(chain))

TraceLog(v, chain) == [i \in 1..Len(chain) |-> LayerDesc(v, chain[i])]

NoResult == [kind |-> "none"]
RaisedResult == [kind |-> "raised"]
ErrorResult(token, msg) == [kind |-> "error", token |-> token, error |-> msg]

KnownResult(token, status) ==
    [kind |-> "known", token |-> token,
     risk_assessment |-> [score |-> status.risk_score, label |-> status.label,
                          flags |-> status.flags],
     details |-> status.details]

\* the score an earlier aggregation returned, 0 when there was none
PreviousScore == IF result.kind = "assessed" THEN result.risk_assessment.score ELSE 0

\* "final_score = 0; final_score += funding_analysis['score']", then the
\* clamp: the local starts from 0 whatever an earlier aggregation returned
FinalScore_Accumulate(previous, total) == Clamp(previous + total)
FinalScore(previous, total) == Clamp(0 + total)

AssessedResult(v, token, dep, score, chain, stop) ==
    [kind |-> "assessed", token |-> token, deployer |-> dep,
     risk_assessment |-> [score |-> FinalScore(PreviousScore, score),
                          label |-> LabelOf(v, FinalScore(PreviousScore, score)),
                          flags |-> FlagsOf(v, chain)],
     funding_chain_analysis |-> [trace_log |-> TraceLog(v, chain), stop_reason |-> stop]]

\* deployer = from address of the earliest timestamped record, else its to address
DeployerOf(tx_list) ==
    LET first_tx == tx_list.recs[FirstIdx(tx_list)]
    IN  IF SafeAddress(first_tx.from) # None THEN SafeAddress(first_tx.from)
        ELSE SafeAddress(first_tx.to)

\* ---------------------------------------------------- the provider's data
\* Addresses: two wallets that may have funded each other, an exchange
\* wallet, and the token under assessment.
Token == "T"
Wallets == {"A", "B", "X"}

\* main.py: the tokens to scan, and the one the loop is at
token_list == << Token, "U" >>
TokenAt(pos) == token_list[pos]
Other(a) == IF a = "A" THEN "B" ELSE "A"
Exchange(a) == IF a = "X" THEN "B" ELSE "X"

HoursAgo(h) == NowHour - h
DaysAgo(d) == NowHour - 24 * d

\* an incoming transfer of address a, from address f, at time t
Incoming(a, f, t, fe, fl) == Tx({t}, f, a, fe, fl)

\* Responses of the 'to' query for address a
ToSamples(a) ==
    { RespNone,
      RespList(TxList(<<Incoming(a, Other(a), HoursAgo(5), EntNone, EntNone)>>, 0)),
      RespList(TxList(<<Incoming(a, Other(a), DaysAgo(200), EntNone, EntNone)>>, 0)),
      RespDict(TxList(<<Incoming(a, Absent, HoursAgo(5), EntNone, EntNone)>>, 99)),
      RespDict(TxList(<<Incoming(a, Exchange(a), HoursAgo(5), EntNameless, EntNamed(NameOkxDeposit))>>, 99)),
      RespList(TxList(<<Incoming(a, Absent, HoursAgo(-2), EntNone, EntNone)>>, 99)),
      RespList(TxList(<<Tx({}, Other(a), a, EntNone, EntNone),
                        Incoming(a, a, DaysAgo(10), EntNamed(NameRaydium), EntNone)>>, 0)),
      RespList(TxList(<<Incoming(a, Null, DaysAgo(200), EntNone, EntNone)>>, 0)) }

\* Responses of the 'base' query (transfers in either direction)
BaseSamples(a) ==
    { RespNone,
      RespNoKey,
      RespList(TxList(<<Tx({DaysAgo(10)}, a, Other(a), EntNone, EntNone)>>, 0)),
      RespDict(TxList(<<Tx({}, Other(a), a, EntNone, EntNone)>>, 0)) }

\* Responses of the deep-history lookup
HistSamples ==
    { HistNone,
      HistList(<<{DaysAgo(200)}>>),
      HistList(<<{}, {DaysAgo(180) - 5}>>),
      HistList(<<{DaysAgo(100)}, {DaysAgo(120)}>>),
      HistList(<<{}>>) }

\* n outgoing transfers of address a to u distinct receivers: receiver i for
\* the i-th transfer while i <= u, the first receiver again afterwards
Receiver(i) == "R" \o ToString(i)
OutRecs(a, n, u) ==
    [i \in 1..n |-> Tx({DaysAgo(1)}, a, IF i <= u THEN Receiver(i) ELSE Receiver(1),
                       EntNone, EntNone)]

\* the same with toAddress null in the last record
OutRecsNullLast(a, n, u) ==
    [i \in 1..n |-> IF i = n THEN Tx({DaysAgo(1)}, a, Null, EntNone, EntNone)
                    ELSE OutRecs(a, n, u)[i]]

\* Responses of the 'from' query, by index
OutSamples(a) ==
    << RespNone,
       RespList(TxList(OutRecs(a, 25, 21), 0)),
       RespDict(TxList(OutRecsNullLast(a, 25, 21), 0)) >>

\* Responses of the intelligence lookup for a traced address: the exchange
\* wallet carries an entity, the other wallets may carry none
HopIntelSamples(a) ==
    IF a = "X"
    THEN { IntelData(EntNamed(NameBinanceHot), EntNone),
           IntelData(EntNamed(NameRaydium), EntNone) }
    ELSE { IntelNoData,
           IntelData(EntNamed(NameHTX), EntNamed(NameHotWallet)) }

\* Responses of the intelligence lookup for the token
TokenIntelSamples ==
    { IntelNoData,
      IntelData(EntNone, EntNone),
      IntelData(EntNone, EntNamed(NameHotWallet)),
      IntelData(EntNamed(NameBinanceHot), EntNone),
      IntelData(EntNamed(NameRugPull), EntNone),
      IntelData(EntNamed(NameRaydium), EntNone) }

\* Responses of the token's transfer history
TokenHistSamples ==
    { RespNone,
      RespDict(TxList(<<Tx({}, "A", Token, EntNone, EntNone)>>, 0)),
      RespList(TxList(<<Tx({DaysAgo(3)}, "A", Token, EntNone, EntNone)>>, 0)),
      RespList(TxList(<<Tx({DaysAgo(3)}, Null, "A", EntNone, EntNone)>>, 0)),
      RespList(TxList(<<Tx({DaysAgo(3)}, Absent, Absent, EntNone, EntNone)>>, 0)) }

\* ----------------------------------------------------------------- actions
EngineInit ==
    /\ variant \in {"Scanner", "scanner1"}
    /\ pc = "check_db"
    /\ response = IntelNoData
    /\ db_status = DbNone
    /\ deployer = None
    /\ depth = 0
    /\ current_addr = None
    /\ chain_info = <<>>
    /\ trace_risk_score = 0
    /\ trace_stop_reason = NoStop
    /\ hopLog = <<>>
    /\ requests = <<>>
    /\ result = NoResult
    /\ probeIn = NoResult
    /\ probeOut = NoResult
    /\ tokenPos = 1
    /\ results = <<>>

\* assess_token_risk, "if db_status: return ...": where the call goes after
\* the classifier's verdict
NextStep_Continue(status) == "token_history"
NextStep_Stop(status) == "done"
NextStep(status) == IF status # DbNone THEN "done" ELSE "token_history"

\* assess_token_risk, step 0: the database pre-check
CheckDatabase ==
    /\ pc = "check_db"
    /\ \E data \in TokenIntelSamples :
        LET status == check_database_status(variant, data)
        IN  /\ response' = data
            /\ db_status' = status
            /\ requests' = Append(requests, "intel")
            /\ IF status # DbNone
               THEN result' = KnownResult(TokenAt(tokenPos), status)
               ELSE result' = result
            /\ pc' = NextStep(status)
    /\ UNCHANGED batchVars
    /\ UNCHANGED << variant, deployer, depth, current_addr, chain_info,
                    trace_risk_score, trace_stop_reason, hopLog, probeIn, probeOut >>

\* assess_token_risk, step 1: the token's history names the deployer, and
\* trace_funding_source(deployer, max_depth=3) starts
IdentifyDeployer ==
    /\ pc = "token_history"
    /\ \E data \in TokenHistSamples :
        LET tx_list == _normalize_transfers_list(data)
        IN  /\ requests' = Append(requests, "transfers_base")
            /\ response' = data
            /\ IF TxLen(tx_list) = 0
               THEN /\ result' = ErrorResult(TokenAt(tokenPos), "No token history found")
                    /\ pc' = "done"
                    /\ UNCHANGED << deployer, current_addr, trace_risk_score,
                                    trace_stop_reason >>
               ELSE IF ValidIdx(tx_list) = {}
               THEN /\ result' = ErrorResult(TokenAt(tokenPos), "No valid timestamp data")
                    /\ pc' = "done"
                    /\ UNCHANGED << deployer, current_addr, trace_risk_score,
                                    trace_stop_reason >>
               ELSE /\ deployer' = DeployerOf(tx_list)
                    /\ current_addr' = DeployerOf(tx_list)
                    /\ trace_risk_score' = BaseScore(variant)
                    /\ trace_stop_reason' = StopMaxDepth
                    /\ pc' = "trace"
                    /\ result' = result
    /\ UNCHANGED batchVars
    /\ UNCHANGED << variant, db_status, depth, chain_info, hopLog, probeIn, probeOut >>

\* 'now' was assigned in an earlier pass of the loop
NowBoundBefore == \E i \in 1..Len(hopLog) : hopLog[i].creation_known

\* trace_funding_source: one pass of "for depth in range(max_depth + 1)";
\* the function returns when the pass breaks or was the last one
TraceIteration ==
    /\ pc = "trace"
    /\ depth < LoopPasses(max_depth)
    /\ \E toResp \in (IF current_addr # None THEN ToSamples(current_addr) ELSE {RespNone}) :
       \E baseResp \in (IF current_addr # None /\ TxLen(_normalize_transfers_list(toResp)) = 0
                        THEN BaseSamples(current_addr) ELSE {RespNone}) :
       \E intel \in (IF variant = "Scanner" /\ depth > 0 THEN HopIntelSamples(current_addr) ELSE {IntelNoData}) :
       \E hist \in (IF variant = "scanner1"
                       /\ Escalates(get_address_details(variant, current_addr, toResp, baseResp))
                    THEN HistSamples ELSE {HistNone}) :
       \E outIdx \in (IF depth > 0 THEN DOMAIN OutSamples(current_addr) ELSE {1}) :
       \E details \in {get_address_details(variant, current_addr, toResp, baseResp)} :
       \E out \in {Iteration(variant, depth, current_addr, chain_info, trace_risk_score,
                             trace_stop_reason,
                             HopData(toResp, baseResp, intel, hist,
                                     OutSamples(current_addr)[outIdx]),
                             NowBoundBefore)} :
            /\ requests' = requests \o out.asked
            /\ response' = HopData(toResp, baseResp, intel, hist,
                                   OutSamples(current_addr)[outIdx])
            /\ IF out.raised
               THEN /\ pc' = "raised"
                    /\ result' = RaisedResult
                    /\ chain_info' = <<>>
                    /\ trace_risk_score' = 0
                    /\ trace_stop_reason' = NoStop
                    /\ hopLog' = <<>>
                    /\ UNCHANGED << depth, current_addr >>
               ELSE /\ chain_info' = out.chain
                    /\ trace_risk_score' = out.score
                    /\ trace_stop_reason' = out.stop
                    /\ hopLog' = Append(hopLog,
                           [depth |-> depth, address |-> current_addr,
                            toResp |-> toResp, baseResp |-> baseResp, intel |-> intel,
                            hist |-> hist, outIdx |-> outIdx, asked |-> out.asked,
                            creation_known |-> details.kind = "details"
                                               /\ details.creation_time # {}])
                    /\ result' = result
                    /\ IF out.brk \/ depth + 1 = LoopPasses(max_depth)
                       THEN /\ pc' = "aggregate"
                            /\ UNCHANGED << depth, current_addr >>
                       ELSE /\ pc' = "trace"
                            /\ depth' = depth + 1
                            /\ current_addr' = out.next
    /\ UNCHANGED batchVars
    /\ UNCHANGED << variant, db_status, deployer, probeIn, probeOut >>

\* assess_token_risk, step 3: clamp, label, flags, trace log
Aggregate ==
    /\ pc = "aggregate"
    /\ result' = AssessedResult(variant, TokenAt(tokenPos), deployer, trace_risk_score, chain_info,
                                trace_stop_reason)
    /\ pc' = "done"
    /\ UNCHANGED batchVars
    /\ UNCHANGED << variant, response, db_status, deployer, depth, current_addr, chain_info,
                    trace_risk_score, trace_stop_reason, hopLog, requests, probeIn, probeOut >>

EngineNext == CheckDatabase \/ IdentifyDeployer \/ TraceIteration \/ Aggregate

Spec == EngineInit /\ [][EngineNext]_vars

\* the same engine under weak fairness: a started assessment keeps running
\* (every call of the scanner blocks until the provider answers)
FairSpec == Spec /\ WF_vars(EngineNext)

\* ------------------------------------------------------------------ claims
\* trace_funding_source has returned its score, chain and stop reason
Returned == pc = "aggregate" \/ (pc = "done" /\ result.kind = "assessed")

\* get_address_details as it answered in pass i of the loop
LoggedDetails(i) ==
    get_address_details(variant, hopLog[i].address, hopLog[i].toResp, hopLog[i].baseResp)

\* C1: every result that carries a risk assessment (known-token result or
\* deep-scan result) has a score between 0 and 100, whatever the unclamped
\* total of the trace is.
C1_ScoreInRange ==
    result.kind \in {"known", "assessed"} =>
        /\ result.risk_assessment.score >= 0
        /\ result.risk_assessment.score <= 100

\* a deep scan returned although the trace's total was negative
C1_Witness ==
    /\ result.kind = "assessed"
    /\ trace_risk_score < 0
    /\ result.risk_assessment.score = 0

\* C2: the hop at position i of a trace has depth i (counting from 0), and a
\* trace has at most max_depth + 2 hops.
C2_DepthsAreIndexes ==
    /\ \A i \in 1..Len(chain_info) : chain_info[i].layer = i - 1
    /\ Len(chain_info) <= max_depth + 2

\* a returned trace of full length: four primary hops and the synthetic one
C2_Witness ==
    /\ Returned
    /\ Len(chain_info) = max_depth + 2
    /\ chain_info[max_depth + 2].is_cex

\* number of addresses get_address_details was asked to resolve
RECURSIVE CountOf(_, _)
CountOf(seq, x) ==
    IF seq = <<>> THEN 0
    ELSE (IF Head(seq) = x THEN 1 ELSE 0) + CountOf(Tail(seq), x)

SyntheticHops == {i \in 1..Len(chain_info) : chain_info[i].age_days = -1 /\ chain_info[i].is_cex
                                            /\ variant = "scanner1"}

\* C3: an assessment that has started always comes to an end, also when the
\* funder links form a cycle; along the way at most max_depth + 1 addresses
\* are resolved and at most one synthetic entity hop is appended.
C3_Terminates ==
    /\ <>(pc \in {"done", "raised"})
    /\ [](/\ CountOf(requests, "transfers_to") <= max_depth + 1
          /\ Cardinality(SyntheticHops) <= 1)

\* a finished walk round a cycle: A, B, A, B
C3_Witness ==
    /\ pc = "done"
    /\ Len(hopLog) = max_depth + 1
    /\ hopLog[1].address = hopLog[3].address
    /\ hopLog[2].address = hopLog[4].address
    /\ CountOf(requests, "transfers_to") = max_depth + 1

\* pass i of the loop resolved a funder that carries an entity name
FunderHasEntity(i) ==
    /\ variant = "scanner1"
    /\ LoggedDetails(i).kind = "details"
    /\ LoggedDetails(i).funder_entity # <<>>

NoFunderResolved(i) ==
    /\ LoggedDetails(i).kind = "details"
    /\ LoggedDetails(i).funder = None
    /\ variant = "scanner1" => LoggedDetails(i).funder_entity = <<>>

LookupFailed ==
    /\ Len(hopLog) > 0
    /\ LoggedDetails(Len(hopLog)).kind = "None"

\* C6 as stated: a trace that stops because the address could not be
\* resolved reports a stop reason that is not the max-depth one, and the
\* max-depth stop reason is reported only after max_depth + 1 primary hops.
C6_Claim ==
    Returned =>
        /\ LookupFailed => trace_stop_reason.text # "Max depth reached"
        /\ trace_stop_reason.text = "Max depth reached" => Len(chain_info) = max_depth + 1

\* ------------------------------------------- helpers called on their own
MaxOutLen == 26         \* explicit records of an outgoing list
MaxMissing == 2         \* records of it that carry no toAddress key

\* further copies of the last record, filling the list towards the window
PadSamples == {0, 40, 70}

\* The outgoing list for one choice of the parameters: n transfers to u
\* receivers, then records without toAddress, then (nullLast) one record whose
\* toAddress is null, then pad copies of the last record
OutgoingList(a, n, u, missing, nullLast, pad) ==
    TxList(OutRecs(a, n, u)
           \o [i \in 1..missing |-> Tx({DaysAgo(1)}, a, Absent, EntNone, EntNone)]
           \o (IF nullLast THEN << Tx({DaysAgo(1)}, a, Null, EntNone, EntNone) >> ELSE <<>>),
           IF n + missing = 0 /\ ~nullLast THEN 0 ELSE pad)

ProbeInit ==
    /\ variant \in {"Scanner", "scanner1"}
    /\ pc = "probe"
    /\ response = IntelNoData
    /\ db_status = DbNone
    /\ deployer = None
    /\ depth = 0
    /\ current_addr = None
    /\ chain_info = <<>>
    /\ trace_risk_score = 0
    /\ trace_stop_reason = NoStop
    /\ hopLog = <<>>
    /\ requests = <<>>
    /\ result = NoResult
    /\ probeIn = NoResult
    /\ probeOut = NoResult
    /\ tokenPos = 1
    /\ results = <<>>

\* analyze_dispersion_pattern("A") against one provider answer
ProbeDispersion ==
    /\ pc = "probe"
    /\ \E n \in 0..MaxOutLen :
       \E u \in (IF n = 0 THEN {0} ELSE 1..n) :
       \E missing \in 0..MaxMissing :
       \E nullLast \in BOOLEAN :
       \E pad \in PadSamples :
       \E shape \in {"list", "dict"} :
       \E l \in {OutgoingList("A", n, u, missing, nullLast, pad)} :
            /\ probeIn' = [kind |-> "outgoing", n |-> n, u |-> u, missing |-> missing,
                           nullLast |-> nullLast, pad |-> l.pad, shape |-> shape]
            /\ response' = IF shape = "list" THEN RespList(l) ELSE RespDict(l)
            /\ probeOut' = analyze_dispersion_pattern("A", response')
    /\ pc' = "probed"
    /\ requests' = << "transfers_from" >>
    /\ UNCHANGED batchVars
    /\ UNCHANGED << variant, db_status, deployer, depth, current_addr, chain_info,
                    trace_risk_score, trace_stop_reason, hopLog, result >>

SpecDisp == ProbeInit /\ [][ProbeDispersion]_vars

\* entity and label objects of an intelligence answer
EntitySamples ==
    { EntNone, EntEmpty, EntNameless, EntNamed(<<>>),
      EntNamed(NameBinanceHot), EntNamed(NameRugPull), EntNamed(NameRaydium),
      EntNamed(NameBinanceExploiter), EntNamed(NamePhishDeployer), EntNamed(NameCircle),
      EntNamed(NameHTX), EntNamed(NameHotWallet), EntNamed(NameScamLabel),
      EntNamed(NameOkxDeposit) }
LabelSamples ==
    { EntNone, EntNameless, EntNamed(NameHotWallet), EntNamed(NameScamLabel),
      EntNamed(NameOkxDeposit), EntNamed(NameRugPull) }

\* check_database_status against one provider answer
ProbeClassify ==
    /\ pc = "probe"
    /\ \E data \in {IntelNoData} \cup {IntelData(e, l) : e \in EntitySamples, l \in LabelSamples} :
            /\ probeIn' = [kind |-> "intel", data |-> data]
            /\ response' = data
            /\ probeOut' = check_database_status(variant, data)
    /\ pc' = "probed"
    /\ requests' = << "intel" >>
    /\ UNCHANGED batchVars
    /\ UNCHANGED << variant, db_status, deployer, depth, current_addr, chain_info,
                    trace_risk_score, trace_stop_reason, hopLog, result >>

SpecClassify == ProbeInit /\ [][ProbeClassify]_vars

IsInfix(needle, hay) ==
    \E i \in 1..(Len(hay) - Len(needle) + 1) : SubSeq(hay, i, i + Len(needle) - 1) = needle
HasWord(keywords, text) == \E k \in 1..Len(keywords) : IsInfix(keywords[k], text)

\* the classifier was asked about an answer that carries data
Classified == pc = "probed" /\ probeIn.kind = "intel"
IsKnown(score_set, label) ==
    /\ probeOut.status = "KNOWN"
    /\ probeOut.risk_score \in score_set
    /\ probeOut.label = label

\* C8 as stated: blacklist keyword -> Known/100/High even with a trusted
\* keyword present; else trusted keyword -> Known/0/Low; else an entity name
\* that is present -> Known/Low; else Unknown.
C8_Original ==
    Classified =>
        LET d == probeIn.data
            text == FullName(d)
            hasData == d.ok /\ (Truthy(d.entity) \/ Truthy(d.label))
        IN  IF hasData /\ HasWord(bad_keywords(variant), text)
            THEN IsKnown({100}, "HIGH")
            ELSE IF hasData /\ HasWord(cex_keywords(variant), text)
            THEN IsKnown({0}, "LOW")
            ELSE IF hasData /\ Truthy(d.entity) /\ d.entity.hasName /\ d.entity.name # <<>>
            THEN IsKnown(0..100, "LOW")
            ELSE probeOut = DbNone

\* C8: the same order, the third rule applying to every non-empty entity
\* object, whether or not it carries a name (a missing name reads "Unknown").
C8_DecisionOrder ==
    Classified =>
        LET d == probeIn.data
            text == FullName(d)
            hasData == d.ok /\ (Truthy(d.entity) \/ Truthy(d.label))
        IN  IF hasData /\ HasWord(bad_keywords(variant), text)
            THEN IsKnown({100}, "HIGH") /\ probeOut.details.reason = "Database Blacklist"
            ELSE IF hasData /\ HasWord(cex_keywords(variant), text)
            THEN IsKnown({0}, "LOW") /\ probeOut.details.reason = "Trusted Issuer"
            ELSE IF hasData /\ Truthy(d.entity)
            THEN IsKnown(0..100, "LOW")
            ELSE probeOut = DbNone

\* a name with a trusted and a blacklist keyword was blacklisted
C8_Witness ==
    /\ Classified
    /\ probeIn.data.ok
    /\ probeIn.data.entity = EntNamed(NameBinanceExploiter)
    /\ HasWord(cex_keywords(variant), FullName(probeIn.data))
    /\ HasWord(bad_keywords(variant), FullName(probeIn.data))
    /\ probeOut.risk_score = 100

\* C9 as stated: a non-empty entity name that matches no keyword is Known,
\* Low, with a score in 1..10.
C9_Claim ==
    (/\ Classified
     /\ probeIn.data.ok
     /\ Truthy(probeIn.data.entity)
     /\ probeIn.data.entity.hasName
     /\ probeIn.data.entity.name # <<>>
     /\ ~HasWord(bad_keywords(variant), FullName(probeIn.data))
     /\ ~HasWord(cex_keywords(variant), FullName(probeIn.data)))
        => IsKnown(1..10, "LOW")

\* first-activity times of the deep-history answer of pass i
HistTimes(i) ==
    IF hopLog[i].hist.shape # "dict" THEN {}
    ELSE {TheOne(hopLog[i].hist.solana[j]) :
            j \in {k \in 1..Len(hopLog[i].hist.solana) : hopLog[i].hist.solana[k] # {}}}
HistFirst(i) == CHOOSE t \in HistTimes(i) : \A o \in HistTimes(i) : t <= o

\* pass i resolved the cap count of records, the earliest under a day old
CappedAndYoung(i) ==
    /\ variant = "scanner1"
    /\ i <= Len(chain_info)
    /\ LoggedDetails(i).kind = "details"
    /\ LoggedDetails(i).tx_count = 100
    /\ LoggedDetails(i).creation_time # {}
    /\ NowHour - TheOne(LoggedDetails(i).creation_time) < 24

\* the hop record shows the deep-history age, verified, not a distributor,
\* and no outgoing-transfer lookup was made in the pass
VerifiedOld(i) ==
    /\ chain_info[i].age_days = DeltaDays(HistFirst(i))
    /\ chain_info[i].is_verified_old
    /\ ~chain_info[i].is_distributor
    /\ \A k \in 1..Len(hopLog[i].asked) : hopLog[i].asked[k] # "transfers_from"

\* C10 as stated: capped and young primary answer, first activity more than
\* 180 days (4320 hours) before now => the hop is a verified old wallet.
C10_Original ==
    \A i \in 1..Len(hopLog) :
        (/\ CappedAndYoung(i)
         /\ HistTimes(i) # {}
         /\ NowHour - HistFirst(i) > 180 * 24)
            => VerifiedOld(i)

\* C10: capped and young primary answer, first activity more than 180 whole
\* days before now (at least 181 days: timedelta.days > 180) => the hop
\* record carries the deep-history age, is a verified old wallet, is not a
\* distributor, and the dispersion detector was not called for it.
C10_TruncationEscalation ==
    \A i \in 1..Len(hopLog) :
        (/\ CappedAndYoung(i)
         /\ HistTimes(i) # {}
         /\ NowHour - HistFirst(i) >= 181 * 24)
            => VerifiedOld(i)

\* a hop past the deployer was verified old although its outgoing transfers
\* (25 to 21 receivers) satisfy the dispersion rule
C10_Witness ==
    \E i \in 2..Len(hopLog) :
        /\ CappedAndYoung(i)
        /\ HistTimes(i) # {}
        /\ NowHour - HistFirst(i) >= 181 * 24
        /\ hopLog[i].outIdx = 2
        /\ analyze_dispersion_pattern(hopLog[i].address, OutSamples(hopLog[i].address)[2])
              = DispResult(FALSE, TRUE)
        /\ chain_info[i].is_verified_old
        /\ ~chain_info[i].is_distributor
        /\ chain_info[i].age_days = 200

\* ------------------------------------------------- main.py, the batch loop
\* what results holds of one entry: its token, its kind and its error text
Summary(res) ==
    [token |-> res.token, kind |-> res.kind,
     error |-> IF res.kind = "error" THEN res.error ELSE ""]

\* main.py line 30: results.append(res)
RecordReturned(rs, res) == Append(rs, Summary(res))

\* main.py lines 31-33: the exception is caught, an error entry is appended
RecordRaised_Drop(rs, token) == rs
RecordRaised(rs, token) ==
    Append(rs, [token |-> token, kind |-> "error", error |-> "exception"])

\* main.py imports Scanner
BatchInit ==
    /\ EngineInit
    /\ variant = "Scanner"

\* main.py lines 27-36: the call of assess_token_risk has ended (returned or
\* raised); its outcome is recorded and the loop moves to the next token,
\* whose call starts with fresh locals
RecordResult ==
    /\ pc \in {"done", "raised"}
    /\ tokenPos <= Len(token_list)
    /\ results' = IF pc = "raised" THEN RecordRaised(results, TokenAt(tokenPos))
                  ELSE RecordReturned(results, result)
    /\ tokenPos' = tokenPos + 1
    /\ pc' = IF tokenPos = Len(token_list) THEN "batch_done" ELSE "check_db"
    /\ response' = IntelNoData
    /\ db_status' = DbNone
    /\ deployer' = None
    /\ depth' = 0
    /\ current_addr' = None
    /\ chain_info' = <<>>
    /\ trace_risk_score' = 0
    /\ trace_stop_reason' = NoStop
    /\ hopLog' = <<>>
    /\ requests' = <<>>
    /\ result' = NoResult
    /\ UNCHANGED << variant, probeIn, probeOut >>

BatchNext == EngineNext \/ RecordResult

SpecBatch == BatchInit /\ [][BatchNext]_vars

\* C11: the batch holds one result per token handled so far, result i
\* carrying token i; at the end there is one result per input; a call that
\* failed (error result or exception) is recorded as an error entry and the
\* next token is assessed from the start.
C11_OneResultPerToken ==
    /\ Len(results) = tokenPos - 1
    /\ \A i \in 1..Len(results) :
          /\ results[i].token = token_list[i]
          /\ results[i].kind \in {"known", "assessed", "error"}
    /\ pc = "batch_done" => Len(results) = Len(token_list)
    /\ (pc = "check_db" /\ tokenPos <= Len(token_list)) =>
          /\ result = NoResult
          /\ chain_info = <<>>
          /\ requests = <<>>

\* the first token's assessment raised, the second one's returned a score
C11_Witness ==
    /\ pc = "batch_done"
    /\ Len(results) = 2
    /\ results[1] = [token |-> Token, kind |-> "error", error |-> "exception"]
    /\ results[2].kind = "assessed"
    /\ results[2].token = "U"

\* the token's transfer history is empty, unavailable or without any
\* timestamped record
HistoryUnusable(resp) ==
    \/ resp.shape \in {"none", "nokey"}
    \/ \A i \in 1..Len(resp.txs.recs) : resp.txs.recs[i].ts = {}

\* the token's history has just been read (no pass of the trace has run)
HistoryRead ==
    /\ db_status = DbNone
    /\ requests = << "intel", "transfers_base" >>
    /\ hopLog = <<>>
    /\ pc \in {"done", "trace"}

\* for an Unknown token: an error result exactly when the history is unusable
ErrorIffNoHistory ==
    HistoryRead => (result.kind = "error" <=> HistoryUnusable(response))

\* C12 as stated: for an Unknown token the call ends in an error result
\* exactly when the token's history is unusable, and in every other case it
\* returns a risk assessment with score, label and flags, never an error
\* (the call does not fail once the history was usable).
C12_Claim ==
    /\ ErrorIffNoHistory
    /\ pc # "raised"
    /\ (pc = "done" /\ result.kind # "error") =>
          /\ result.kind \in {"known", "assessed"}
          /\ result.risk_assessment.score \in 0..100
          /\ result.risk_assessment.label \in {"LOW", "MEDIUM", "HIGH"}

\* the trace's first lookup had nothing to resolve: there is no deployer
\* address, or neither query for the deployer returned a transfer
FirstLookupEmpty ==
    \/ deployer = None
    \/ /\ Len(hopLog) > 0
       /\ TxLen(_normalize_transfers_list(hopLog[1].toResp)) = 0
       /\ TxLen(_normalize_transfers_list(hopLog[1].baseResp)) = 0

\* C13 as stated: when the first lookup for the deployer yields no data (or
\* there is no deployer address) the call ends in a token-level error; it
\* never returns a risk assessment for a trace that resolved no data.
C13_Claim ==
    (pc = "done" /\ db_status = DbNone /\ FirstLookupEmpty) => result.kind = "error"

\* C14: the token's entity lookup (request "intel") is the first request of
\* the call and is made once; a Known verdict is returned with its score,
\* label and flags unchanged, and then no transfer lookup is made, no
\* deployer identified and no hop traced.
C14_ClassifierFirst ==
    /\ pc # "check_db" => requests # <<>>
    /\ requests # <<>> =>
          /\ requests[1] = "intel"
          /\ CountOf(requests, "intel") = 1
    /\ (pc # "check_db" /\ db_status # DbNone) =>
          /\ pc = "done"
          /\ result.kind = "known"
          /\ db_status = check_database_status(variant, response)
          /\ result.risk_assessment.score = db_status.risk_score
          /\ result.risk_assessment.label = db_status.label
          /\ result.risk_assessment.flags = db_status.flags
          /\ requests = << "intel" >>
          /\ deployer = None
          /\ chain_info = <<>>
          /\ hopLog = <<>>
    /\ result.kind = "known" => db_status # DbNone

\* a blacklisted token was returned from the pre-check alone
C14_Witness ==
    /\ pc = "done"
    /\ result.kind = "known"
    /\ result.risk_assessment.score = 100
    /\ result.risk_assessment.label = "HIGH"
    /\ requests = << "intel" >>

\* -------------------------------------------- the label of a final score
MaxExcess == 30         \* how far a trace total may lie outside 0..100

\* lines 366-372 of scanner1.py on one trace total
ScoreAndLabel(v, total) == [score |-> Clamp(total), label |-> LabelOf(v, Clamp(total))]

\* two trace totals are clamped and labelled
ProbeLabel ==
    /\ pc = "probe"
    /\ \E a \in (0 - MaxExcess)..(100 + MaxExcess) :
       \E b \in (0 - MaxExcess)..(100 + MaxExcess) :
            /\ probeIn' = [kind |-> "totals", a |-> a, b |-> b]
            /\ probeOut' = [a |-> ScoreAndLabel(variant, a), b |-> ScoreAndLabel(variant, b)]
    /\ pc' = "probed"
    /\ UNCHANGED batchVars
    /\ UNCHANGED << variant, response, db_status, deployer, depth, current_addr, chain_info,
                    trace_risk_score, trace_stop_reason, hopLog, requests, result >>

SpecLabel == ProbeInit /\ [][ProbeLabel]_vars

Labelled == pc = "probed" /\ probeIn.kind = "totals"

\* the order of the labels
Rank(label) == IF label = "LOW" THEN 0 ELSE IF label = "MEDIUM" THEN 1 ELSE 2

\* the claimed thresholds for one score and label
ThresholdsHold(v, r) ==
    /\ r.score \in 0..100
    /\ r.label \in {"LOW", "MEDIUM", "HIGH"}
    /\ r.label = "HIGH" <=> r.score >= 70
    /\ r.label = "MEDIUM" <=> ((IF v = "Scanner" THEN 30 ELSE 40) <= r.score /\ r.score < 70)
    /\ r.label = "LOW" <=> r.score < (IF v = "Scanner" THEN 30 ELSE 40)

\* C15: the label depends on the clamped score alone: High exactly from 70,
\* Medium exactly from the lower threshold (30 in Scanner.py, 40 in
\* scanner1.py) up to 69, Low exactly below it; equal scores get equal labels
\* and a higher score never gets a lower label.
C15_LabelThresholds ==
    Labelled =>
        /\ ThresholdsHold(variant, probeOut.a)
        /\ ThresholdsHold(variant, probeOut.b)
        /\ probeOut.a.score = probeOut.b.score => probeOut.a.label = probeOut.b.label
        /\ probeOut.a.score <= probeOut.b.score =>
              Rank(probeOut.a.label) <= Rank(probeOut.b.label)

\* scanner1.py: 39 is Low and 40 is Medium
C15_Witness ==
    /\ Labelled
    /\ variant = "scanner1"
    /\ probeIn.a = 39 /\ probeOut.a.label = "LOW"
    /\ probeIn.b = 40 /\ probeOut.b.label = "MEDIUM"

\* ------------------------------------------------- aggregation, repeated
\* step 3 of assess_token_risk once more on the trace result it was given
Reaggregate ==
    /\ pc = "done"
    /\ result.kind = "assessed"
    /\ result' = AssessedResult(variant, TokenAt(tokenPos), deployer, trace_risk_score,
                                chain_info, trace_stop_reason)
    /\ pc' = "done_again"
    /\ UNCHANGED batchVars
    /\ UNCHANGED << variant, response, db_status, deployer, depth, current_addr, chain_info,
                    trace_risk_score, trace_stop_reason, hopLog, requests, probeIn, probeOut >>

RepeatNext == EngineNext \/ Reaggregate

SpecRepeat == EngineInit /\ [][RepeatNext]_vars

RECURSIVE SumContributions(_)
SumContributions(chain) ==
    IF chain = <<>> THEN 0
    ELSE Head(chain).risk_contribution + SumContributions(Tail(chain))

\* what was taken off the running total beyond the recorded contributions
UnrecordedReduction == SumContributions(chain_info) - trace_risk_score

\* C17 as stated: on a known-entity stop the entity hop's own reduction
\* exceeds, in magnitude, the reduction applied to the running total for the
\* funded hop.
C17_Claim ==
    (/\ Returned
     /\ variant = "scanner1"
     /\ trace_stop_reason.text = "Funded by Known Entity")
        => 0 - chain_info[Len(chain_info)].risk_contribution > UnrecordedReduction

\* C18 as stated: a transfer record that lacks its timestamp or whose
\* fromAddress / toAddress object is absent or null never makes address
\* resolution or dispersion detection fail: no pass of the trace raises, the
\* hop is recorded and the call goes on to its result.
C18_Claim ==
    /\ pc # "raised"
    /\ result.kind # "raised"
    /\ \A i \in 1..Len(hopLog) : LoggedDetails(i).kind # "Raise"

\* --------------------------------------------------------------- _get
\* What one requests.get can come to: an exception, or a response with a
\* status and a body that response.json() parses (json) or not
GetRaises == [kind |-> "raises", status |-> 0, json |-> FALSE, body |-> RespNone]
GetResponse(status, json, body) ==
    [kind |-> "response", status |-> status, json |-> json, body |-> body]

AttemptSamples ==
    { GetRaises,
      GetResponse(200, FALSE, RespNone),
      GetResponse(200, TRUE, RespNone),
      GetResponse(200, TRUE, RespList(EmptyTx)),
      GetResponse(200, TRUE, RespNoKey),
      GetResponse(200, TRUE,
                  RespList(TxList(<<Incoming("A", "B", DaysAgo(200), EntNone, EntNone)>>, 0))),
      GetResponse(200, TRUE,
                  RespDict(TxList(<<Incoming("A", "B", HoursAgo(5), EntNone, EntNone)>>, 99))),
      GetResponse(204, TRUE, RespNone),
      GetResponse(404, TRUE, RespNoKey),
      GetResponse(429, TRUE, RespNoKey),
      GetResponse(500, FALSE, RespNone) }

\* "for _ in range(3)"
MaxTries == 3

\* "if response.status_code == 200"
StopsAt_Never(status) == FALSE
StopsAt(status) == status = 200

\* what _get hands to its caller; "except Exception ... return None" and the
\* end of the function both give None
GetReturn(value) == [kind |-> "returned", raised |-> FALSE, value |-> value]

\* one pass of the retry loop, and after the last pass raise_for_status
\* (whether it raises or not, the caller gets None)
GetAttempt ==
    /\ pc = "get"
    /\ Len(probeIn.attempts) < MaxTries
    /\ \E r \in AttemptSamples :
         /\ probeIn' = [kind |-> "get", attempts |-> Append(probeIn.attempts, r)]
         /\ requests' = Append(requests, "GET")
         /\ IF r.kind = "raises"
            THEN /\ probeOut' = GetReturn(RespNone)
                 /\ pc' = "got"
            ELSE IF StopsAt(r.status)
            THEN /\ probeOut' = GetReturn(IF r.json THEN r.body ELSE RespNone)
                 /\ pc' = "got"
            ELSE IF Len(probeIn.attempts) + 1 = MaxTries
            THEN /\ probeOut' = GetReturn(RespNone)
                 /\ pc' = "got"
            ELSE /\ probeOut' = probeOut
                 /\ pc' = "get"
    /\ UNCHANGED batchVars
    /\ UNCHANGED << variant, response, db_status, deployer, depth, current_addr, chain_info,
                    trace_risk_score, trace_stop_reason, hopLog, result >>

\* the callers: get_address_details asks for the transfers of an address and
\* works on what _get returned
CallerReads ==
    /\ pc = "got"
    /\ response' = probeOut.value
    /\ probeOut' = [kind |-> "read", raised |-> FALSE, value |-> probeOut.value,
                    tx_list |-> _normalize_transfers_list(probeOut.value),
                    details |-> get_address_details(variant, "A", probeOut.value,
                                                    probeOut.value)]
    /\ pc' = "read"
    /\ UNCHANGED batchVars
    /\ UNCHANGED << variant, db_status, deployer, depth, current_addr, chain_info,
                    trace_risk_score, trace_stop_reason, hopLog, requests, result, probeIn >>

GetInit ==
    /\ variant \in {"Scanner", "scanner1"}
    /\ pc = "get"
    /\ response = IntelNoData
    /\ db_status = DbNone
    /\ deployer = None
    /\ depth = 0
    /\ current_addr = None
    /\ chain_info = <<>>
    /\ trace_risk_score = 0
    /\ trace_stop_reason = NoStop
    /\ hopLog = <<>>
    /\ requests = <<>>
    /\ result = NoResult
    /\ probeIn = [kind |-> "get", attempts |-> <<>>]
    /\ probeOut = NoResult
    /\ tokenPos = 1
    /\ results = <<>>

GetNext == GetAttempt \/ CallerReads

SpecGet == GetInit /\ [][GetNext]_vars

\* attempts that ended in a response with status 200
Successes == {i \in 1..Len(probeIn.attempts) :
                 probeIn.attempts[i].kind = "response" /\ probeIn.attempts[i].status = 200}
\* attempts in which requests.get itself raised
Failures == {i \in 1..Len(probeIn.attempts) : probeIn.attempts[i].kind = "raises"}

LookupGaveNothing ==
    /\ requests = << "intel" >>
    /\ \/ ~response.ok
       \/ (~Truthy(response.entity) /\ ~Truthy(response.label))

\* C20: when the token's entity lookup fails or returns no data the verdict
\* is Unknown: no result is returned, neither error nor Known, and the call
\* stands before the token's transfer-history request, which is the next
\* request it makes.
C20_LookupFailureIsUnknown ==
    /\ LookupGaveNothing =>
          /\ db_status = DbNone
          /\ result = NoResult
          /\ pc = "token_history"
    /\ (db_status = DbNone /\ Len(requests) >= 2) => requests[2] = "transfers_base"
    /\ (pc = "token_history") => (db_status = DbNone /\ requests = << "intel" >>)

\* the lookup failed and the call stands before the history request
C20_Witness ==
    /\ requests = << "intel" >>
    /\ ~response.ok
    /\ db_status = DbNone
    /\ pc = "token_history"

\* the earliest timestamped record of the list that pass i resolved
EarliestOf(i) ==
    ResolvedList(hopLog[i].toResp, hopLog[i].baseResp).recs[
        FirstIdx(ResolvedList(hopLog[i].toResp, hopLog[i].baseResp))]

\* pass i resolved a list with a timestamped record
HasEarliest(i) ==
    /\ LoggedDetails(i).kind = "details"
    /\ ValidIdx(ResolvedList(hopLog[i].toResp, hopLog[i].baseResp)) # {}

\* C21: get_address_details never names the address as its own funder; it
\* names a funder only when the earliest timestamped record goes to the
\* address from a present source; it names a funder entity only with a
\* funder.  So neighbouring hops of a chain differ in address and an entity
\* hop always has an address.
C21_FunderInvariants ==
    /\ \A i \in 1..Len(hopLog) :
          LoggedDetails(i).kind = "details" =>
              /\ LoggedDetails(i).funder # hopLog[i].address
              /\ LoggedDetails(i).funder # None =>
                    /\ HasEarliest(i)
                    /\ EarliestOf(i).to = hopLog[i].address
                    /\ EarliestOf(i).from \notin {Absent, Null}
                    /\ EarliestOf(i).from = LoggedDetails(i).funder
              /\ variant = "scanner1" =>
                    (LoggedDetails(i).funder_entity # <<>> => LoggedDetails(i).funder # None)
    /\ \A k \in 1..(Len(chain_info) - 1) : chain_info[k].address # chain_info[k + 1].address
    /\ \A k \in 1..Len(chain_info) : chain_info[k].is_cex => chain_info[k].address # None

\* the earliest record of a hop is a transfer of the address to itself, with
\* an entity name, and the hop has neither funder nor funder entity
C21_Witness ==
    \E i \in 1..Len(hopLog) :
        /\ variant = "scanner1"
        /\ HasEarliest(i)
        /\ EarliestOf(i).from = hopLog[i].address
        /\ EarliestOf(i).to = hopLog[i].address
        /\ NameOf(EarliestOf(i).fromEntity) # <<>>
        /\ LoggedDetails(i).funder = None
        /\ LoggedDetails(i).funder_entity = <<>>
        /\ i <= Len(chain_info)
        /\ chain_info[i].funded_by_entity = <<>>

\* how many 'from' queries (the dispersion detector's request) pass i made
DetectorCalls(i) == CountOf(hopLog[i].asked, "transfers_from")

\* the age part of the risk contribution of a primary hop
AgePart(layer) ==
    IF variant = "Scanner" THEN AgeRisk_Scanner(layer.layer, layer.age_days)
    ELSE AgeRisk_scanner1(layer.layer, layer.age_days, layer.is_verified_old)

\* C22: the dispersion detector runs at most once per primary hop, never at
\* depth 0 and never for a verified-old hop; so the hop at depth 0 is never a
\* distributor, no hop is both verified-old and a distributor, and a hop's
\* risk contribution holds the dispersion penalty exactly when the hop is a
\* distributor.
C22_DispersionOncePerHop ==
    /\ \A i \in 1..Len(hopLog) :
          /\ DetectorCalls(i) <= 1
          /\ hopLog[i].depth = 0 => DetectorCalls(i) = 0
          /\ (i <= Len(chain_info) /\ chain_info[i].is_verified_old) => DetectorCalls(i) = 0
          /\ (i <= Len(chain_info) /\ chain_info[i].is_distributor) => DetectorCalls(i) = 1
    /\ \A k \in 1..Len(chain_info) :
          /\ chain_info[k].layer = 0 => ~chain_info[k].is_distributor
          /\ ~(chain_info[k].is_verified_old /\ chain_info[k].is_distributor)
          /\ chain_info[k].is_cex =>
                /\ ~chain_info[k].is_distributor
                /\ chain_info[k].risk_contribution \in {-10, -20}
          /\ ~chain_info[k].is_cex =>
                chain_info[k].risk_contribution - AgePart(chain_info[k])
                    = (IF chain_info[k].is_distributor
                       THEN (IF variant = "Scanner" THEN 50 ELSE 30) ELSE 0)

\* a trace with a distributor hop whose contribution holds the penalty and a
\* verified-old hop past the deployer for which the detector did not run
C22_Witness ==
    \E i, j \in 1..Len(chain_info) :
        /\ chain_info[i].is_distributor
        /\ chain_info[i].risk_contribution = AgePart(chain_info[i]) + 30
        /\ chain_info[j].is_verified_old
        /\ chain_info[j].layer > 0
        /\ j <= Len(hopLog)
        /\ DetectorCalls(j) = 0
        /\ DetectorCalls(i) = 1

\* the three kinds of flag, by the text each file writes
EntityFlagTexts == {"Funded by Trusted Entity", "Fund source is"}
DispersionFlagTexts == {"shows suspicious dispersion pattern", "suspicious dispersion"}
FreshFlagTexts == {"is fresh wallet"}

\* positions of the returned flag list holding a flag of the kind, for any
\* hop / for the hop recorded with layer index d
FlagsOfKind(texts) ==
    {n \in 1..Len(result.risk_assessment.flags) : result.risk_assessment.flags[n].text \in texts}
FlagsOfKindAt(texts, d) ==
    {n \in FlagsOfKind(texts) : result.risk_assessment.flags[n].layer = d}

StoppedOnEntity == trace_stop_reason.text \in {"Found Trusted Entity", "Funded by Known Entity"}

\* C23: the flags are read off the trace and leave the score alone: one
\* funded-by-entity flag when the trace stopped on a known entity and none
\* otherwise, one dispersion flag for each distributor hop and none for other
\* hops, and a fresh-wallet flag only for hops that are not verified-old, have
\* a known age and are younger than 30 days (deployer) or 60 days (sources).
C23_FlagsFromTrace ==
    result.kind = "assessed" =>
        /\ result.risk_assessment.score = Max2(0, Min2(100, trace_risk_score))
        /\ Cardinality(FlagsOfKind(EntityFlagTexts)) = (IF StoppedOnEntity THEN 1 ELSE 0)
        /\ \A n \in 1..Len(result.risk_assessment.flags) :
              \E k \in 1..Len(chain_info) :
                  chain_info[k].layer = result.risk_assessment.flags[n].layer
        /\ \A k \in 1..Len(chain_info) :
              /\ Cardinality(FlagsOfKindAt(DispersionFlagTexts, chain_info[k].layer))
                     = (IF chain_info[k].is_distributor THEN 1 ELSE 0)
              /\ Cardinality(FlagsOfKindAt(FreshFlagTexts, chain_info[k].layer)) <= 1
              /\ FlagsOfKindAt(FreshFlagTexts, chain_info[k].layer) # {} =>
                    /\ ~chain_info[k].is_verified_old
                    /\ chain_info[k].age_days # -1
                    /\ \/ chain_info[k].layer = 0 /\ chain_info[k].age_days < 30
                       \/ chain_info[k].layer > 0 /\ chain_info[k].age_days < 60

\* an assessment with all three kinds of flag whose trace also holds a hop of
\* unknown age without a fresh-wallet flag
C23_Witness ==
    /\ result.kind = "assessed"
    /\ StoppedOnEntity
    /\ FlagsOfKind(EntityFlagTexts) # {}
    /\ FlagsOfKind(DispersionFlagTexts) # {}
    /\ FlagsOfKind(FreshFlagTexts) # {}
    /\ \E k \in 1..Len(chain_info) :
          /\ chain_info[k].age_days = -1
          /\ FlagsOfKindAt(FreshFlagTexts, chain_info[k].layer) = {}

\* the creation time of the address of pass i was resolved, from the
\* primary lookup or from the deep-history lookup
CreationResolved(i) ==
    \/ hopLog[i].creation_known
    \/ /\ CountOf(hopLog[i].asked, "history") > 0
       /\ get_true_age_via_history(hopLog[i].hist) # {}

\* C24: a hop record has age_days = -1 exactly when the creation time of its
\* address is unknown; a resolved creation time, also one slightly ahead of
\* the current time, gives an age other than -1.
C24_Claim ==
    \A k \in 1..Len(chain_info) :
        k <= Len(hopLog) => (chain_info[k].age_days = -1 <=> ~CreationResolved(k))

\* the direction that the code keeps: an unknown creation time gives -1
UnknownIsMinusOne ==
    \A k \in 1..Len(chain_info) :
        (k <= Len(hopLog) /\ ~CreationResolved(k)) => chain_info[k].age_days = -1

\* C25: when trace_funding_source returns, its total minus the sum of the
\* hops' risk contributions is the base score 20 in Scanner.py; in
\* scanner1.py it is 0, or -40 when the trace stopped on a known entity (the
\* reduction for the funded hop is in the total and in no hop).
C25_TotalMinusContributions ==
    Returned =>
        trace_risk_score - SumContributions(chain_info)
            = (IF variant = "Scanner" THEN 20
               ELSE IF trace_stop_reason.text = "Funded by Known Entity" THEN -40
               ELSE 0)

\* scanner1.py returned from a trace of three hops that stopped on a known
\* entity, with a distributor hop among them
C25_Witness ==
    /\ Returned
    /\ variant = "scanner1"
    /\ trace_stop_reason.text = "Funded by Known Entity"
    /\ Len(chain_info) = 3
    /\ chain_info[3].risk_contribution = -20
    /\ \E k \in 1..2 : chain_info[k].is_distributor
    /\ trace_risk_score = SumContributions(chain_info) - 40

\* pass i of scanner1.py's loop entered the truncation-escalation branch
EscalatedAt(i) == variant = "scanner1" /\ CountOf(hopLog[i].asked, "history") > 0

\* C26: in scanner1.py the deep-history lookup is made only at hops whose
\* primary creation time is known (a transfer count of 100 or more comes with
\* a creation time), so it never runs for a hop whose age_days is -1 and never
\* reads 'now' before the pass assigned it.
C26_Claim ==
    \A i \in 1..Len(hopLog) :
        /\ (LoggedDetails(i).kind = "details" /\ variant = "scanner1"
            /\ LoggedDetails(i).tx_count >= 100) => LoggedDetails(i).creation_time # {}
        /\ EscalatedAt(i) =>
              /\ hopLog[i].creation_known
              /\ AgeDaysOf(LoggedDetails(i).creation_time) # -1

\* what holds of the branch: the primary creation time is known, so 'now' was
\* assigned in the same pass before "true_delta = now - true_creation_time"
EscalationHasCreationTime ==
    \A i \in 1..Len(hopLog) :
        /\ (LoggedDetails(i).kind = "details" /\ variant = "scanner1"
            /\ LoggedDetails(i).tx_count >= 100) => LoggedDetails(i).creation_time # {}
        /\ EscalatedAt(i) => hopLog[i].creation_known
====
